---- MODULE Spec2Model ----
(***************************************************************************)
(* Kindelia node (src/src/node.rs): the block graph kept by Node, the      *)
(* ingestion procedure Node::add_block with its fork choice, reorg and     *)
(* runtime replay, and the difficulty arithmetic it relies on.             *)
(*                                                                         *)
(* Hashes are kept at a reduced width of 20 bits: every U256 of the source *)
(* is an integer in 0 .. P256, P256 being the all-ones word.  Keccak is    *)
(* modelled by an injective function of the hashed fields (Keccak below).  *)
(***************************************************************************)
EXTENDS Integers, Sequences, FiniteSets, TLC

\* ------------------------------------------------------------------------
\* Bounds of the model
\* ------------------------------------------------------------------------

\* How many add_block calls a behaviour makes at most.
MaxCalls == 4

\* How many times the wall clock advances at most.
MaxClockSteps == 1

\* ------------------------------------------------------------------------
\* Constants of the program
\* ------------------------------------------------------------------------

\* The all-ones word p256 of target_to_difficulty / difficulty_to_target,
\* at 20 bits instead of 256.
P256 == 2^20 - 1

\* The fixed-point unit p32 of compute_next_target, at 8 bits instead of 32.
P32 == 2^8

DELAY_TOLERANCE == 60 * 60 * 1000

TIME_PER_BLOCK == 3000

BLOCKS_PER_PERIOD == 20

TIME_PER_PERIOD == TIME_PER_BLOCK * BLOCKS_PER_PERIOD

INITIAL_DIFFICULTY == 256

\* hash_u256(u256(0)): the top 20 bits of Keccak-256 of 32 zero bytes.
ZERO_HASH == 409183

\* hash_bytes(&[]): the top 20 bits of Keccak-256 of the empty string.
HASH_EMPTY == 461384

\* ------------------------------------------------------------------------
\* Difficulty arithmetic
\* ------------------------------------------------------------------------

target_to_difficulty(targ) == P256 \div (P256 - targ)

\* difficulty_to_target giving the target one below.
difficulty_to_target_below(difficulty) == P256 - (P256 \div difficulty) - 1

difficulty_to_target(difficulty) == P256 - (P256 \div difficulty)

\* compute_next_target without the - 1 under the division.
compute_next_target_up(last_target, scale) ==
  LET last_difficulty == target_to_difficulty(last_target)
      next_difficulty == 1 + ((last_difficulty * scale) \div P32)
  IN difficulty_to_target(next_difficulty)

\* Whether compute_next_target panics: target_to_difficulty divides by
\* p256 - last_target, and the product and the subtraction are checked
\* operations of U256 (of the width of P256 here).
compute_next_target_panics(last_target, scale) ==
  \/ last_target = P256
  \/ target_to_difficulty(last_target) * scale > P256
  \/ target_to_difficulty(last_target) * scale < 1

compute_next_target(last_target, scale) ==
  LET last_difficulty == target_to_difficulty(last_target)
      next_difficulty == 1 + ((last_difficulty * scale - 1) \div P32)
  IN difficulty_to_target(next_difficulty)

get_hash_work(hash) ==
  IF hash = 0 THEN 0 ELSE target_to_difficulty(hash)

INITIAL_TARGET == difficulty_to_target(INITIAL_DIFFICULTY)

\* ------------------------------------------------------------------------
\* Blocks and their hashes
\* ------------------------------------------------------------------------

\* A Block.  The body is kept as the list of the transactions packed in it.
Blk(prev, time, rand, body) ==
  [prev |-> prev, time |-> time, rand |-> rand, body |-> body]

GENESIS_BLOCK == Blk(ZERO_HASH, 0, 0, <<>>)

\* The nonce decides how high the digest is: nonce 0 gives a digest in the
\* lower half of the space (it misses INITIAL_TARGET), nonce 1 a digest just
\* above INITIAL_TARGET, nonce 2 a digest well above it, and each further
\* nonce up to 17 a digest 64 above the one before; the nonces from 18 on
\* give digests in the lower half of the space again.
NonceBase(rand) ==
  CASE rand = 0 -> 2^19
    [] rand = 1 -> INITIAL_TARGET
    [] rand \in 2 .. 17 -> P256 - 1500 + 64 * (rand - 2)
    [] OTHER    -> 2^18 + 64 * (rand % 1024)

\* The low bits of the digest, mixed from the other hashed fields.
Mix(prev, time, body) ==
  ((prev % 61) + (time \div 1000) + 3 * Len(body)) % 64

\* Keccak of the byte string prev | time | rand | body.
Keccak(prev, time, rand, body) == NonceBase(rand) + Mix(prev, time, body)

hash_block(block) ==
  IF block.time = 0
    THEN HASH_EMPTY
    ELSE Keccak(block.prev, block.time, block.rand, block.body)

\* ------------------------------------------------------------------------
\* Transactions and bodies, byte by byte
\* ------------------------------------------------------------------------

\* Size of a block's body, in bytes.
BODY_SIZE == 1280

\* n zero bytes.
zeros(n) == [i \in 1 .. n |-> 0]

\* Transaction::new: pads the data to a non-zero multiple of 5 bytes.
Transaction_new(data) ==
  IF Len(data) = 0
    THEN zeros(5)
    ELSE data \o zeros((5 - (Len(data) % 5)) % 5)

\* Transaction::len_byte, the quotient cast to u8.
len_byte(data) == ((Len(data) - 1) \div 5) % 256

\* Transaction::len_byte_to_len, computed on u8: with overflow checks (a
\* debug build) a sum or product above 255 panics, without them it wraps.
len_byte_to_len(lb, checks) ==
  LET sum  == lb + 1
      prod == (sum % 256) * 5
  IN [ok |-> ~checks \/ (sum < 256 /\ prod < 256), val |-> prod % 256]

\* copy_from_slice of data into the bytes written so far, at offset at.
write(written, at, data) ==
  SubSeq(written, 1, at) \o data
    \o SubSeq(written, at + Len(data) + 1, Len(written))

\* The loop of build_body over the pool, from its i-th transaction on.  st
\* holds body_len, tx_count, the bytes of body_val written so far (the rest
\* are 0) and whether no panic has happened.
RECURSIVE build_body_loop(_, _, _, _)
build_body_loop(pool_iter, i, st, checks) ==
  IF i > Len(pool_iter) \/ ~st.ok
    THEN st
    ELSE
      LET data     == pool_iter[i]
          len_real == Len(data)
          lb       == len_byte(data)
          len_used == len_byte_to_len(lb, checks)
      IN IF len_real = 0
           THEN build_body_loop(pool_iter, i + 1, st, checks)
           ELSE IF ~len_used.ok
             THEN [st EXCEPT !.ok = FALSE]
             ELSE IF st.body_len + 1 + len_used.val > BODY_SIZE
               THEN st
               ELSE IF st.body_len + 1 + len_real > BODY_SIZE
                 THEN [st EXCEPT !.ok = FALSE]
                 ELSE build_body_loop(
                        pool_iter, i + 1,
                        [body_len |-> st.body_len + 1 + len_used.val,
                         tx_count |-> st.tx_count + 1,
                         written  |-> write(write(st.written, st.body_len,
                                                  <<lb>>),
                                            st.body_len + 1, data),
                         ok       |-> TRUE],
                        checks)

\* Node::build_body over the pool in its iteration order: the body, how many
\* transactions it packed and whether it returned.
build_body(pool_iter, checks) ==
  LET st == build_body_loop(pool_iter, 1,
                            [body_len |-> 1, tx_count |-> 0,
                             written |-> <<0>>, ok |-> TRUE],
                            checks)
  IN [ok     |-> st.ok,
      packed |-> st.tx_count,
      value  |-> [i \in 1 .. BODY_SIZE |->
                    IF i = 1 THEN st.tx_count
                    ELSE IF i <= Len(st.written) THEN st.written[i] ELSE 0]]

\* The loop of extract_transactions; index counts from 0 as in the code.
RECURSIVE extract_loop(_, _, _, _, _)
extract_loop(value, i, index, transactions, checks) ==
  IF i >= value[1] \/ index >= BODY_SIZE
    THEN [ok |-> TRUE, transactions |-> transactions]
    ELSE
      LET lb       == value[index + 1]
          len_used == len_byte_to_len(lb, checks)
      IN IF ~len_used.ok
           THEN [ok |-> FALSE, transactions |-> transactions]
           ELSE IF index + 1 + len_used.val > BODY_SIZE
             THEN [ok |-> TRUE, transactions |-> transactions]
             ELSE extract_loop(
                    value, i + 1, index + 1 + len_used.val,
                    Append(transactions,
                           Transaction_new(SubSeq(value, index + 2,
                                                  index + 1 + len_used.val))),
                    checks)

\* Converts a body to a vector of transactions.
extract_transactions(value, checks) == extract_loop(value, 0, 1, <<>>, checks)

\* ------------------------------------------------------------------------
\* The node
\* ------------------------------------------------------------------------

VARIABLES
  block,      \* block_hash -> block
  waiting,    \* block_hash -> downloaded block, waiting for ancestors
  wait_list,  \* block_hash -> hashes of blocks that are waiting for this one
  children,   \* block_hash -> hashes of this block's children
  work,       \* block_hash -> accumulated work
  target,     \* block_hash -> this block's target
  height,     \* block_hash -> cached height
  results,    \* block_hash -> results of the statements in this block
  tip,        \* current tip
  pool,       \* transactions to be mined
  runtime,    \* the runtime: its tick and the blocks it has applied
  disk,       \* the block log: height -> block saved in the file of that name
  failed,     \* hashes inserted by add_block that did not pass its validity check
  promoted,   \* how many blocks add_block has moved from waiting to must_include
  replay,     \* the last reorg: the tips, the tick rolled back to, the blocks computed
  crashed,    \* the process has panicked
  now,        \* get_time()
  calls,      \* add_block calls made so far
  fn_in,      \* the argument a pure function is applied to
  fn_out,     \* what it returned
  miner_comm, \* the shared MinerComm object
  miner,      \* the miner thread: where it is and the job it holds
  node_pc,    \* where the node is in the tick of its main loop
  ticks,      \* the ticks of the main loop that are over
  consumed,   \* the node passed the Answer in the mailbox to add_block
  inbox,      \* the datagram the step just taken handled
  outbox,     \* the datagrams the node sent in the step just taken
  hung        \* the node thread is in a loop that does not end

vars == <<block, waiting, wait_list, children, work, target, height, results,
          tip, pool, runtime, disk, failed, promoted, replay, crashed, now,
          calls, fn_in, fn_out, miner_comm, miner, node_pc, ticks,
          consumed, inbox, outbox, hung>>

\* What lies around the graph: the miner, the tick and the socket.
io_vars ==
  <<miner_comm, miner, node_pc, ticks, consumed, inbox, outbox, hung>>

\* The socket, and whether the handler of a datagram returns.
net_vars == <<inbox, outbox, hung>>

\* HashMap::new(): a map is kept as a function from its keys.
EmptyMap == [k \in {} |-> 0]

\* HashMap::insert and HashMap::remove.
Insert(map, key, value) ==
  [k \in DOMAIN map \cup {key} |-> IF k = key THEN value ELSE map[k]]

Remove(map, key) == [k \in DOMAIN map \ {key} |-> map[k]]

Reverse(seq) == [i \in 1 .. Len(seq) |-> seq[Len(seq) + 1 - i]]

\* The Node as one value, for the operators that transform it.
NodeState ==
  [block |-> block, waiting |-> waiting, wait_list |-> wait_list,
   children |-> children, work |-> work, target |-> target,
   height |-> height, results |-> results, tip |-> tip, pool |-> pool,
   runtime |-> runtime, disk |-> disk, failed |-> failed,
   promoted |-> promoted, replay |-> replay, crashed |-> crashed]

SetNode(S) ==
  /\ block' = S.block
  /\ waiting' = S.waiting
  /\ wait_list' = S.wait_list
  /\ children' = S.children
  /\ work' = S.work
  /\ target' = S.target
  /\ height' = S.height
  /\ results' = S.results
  /\ tip' = S.tip
  /\ pool' = S.pool
  /\ runtime' = S.runtime
  /\ disk' = S.disk
  /\ failed' = S.failed
  /\ promoted' = S.promoted
  /\ replay' = S.replay
  /\ crashed' = S.crashed

\* init_runtime(): nothing applied, tick 0.
init_runtime == [tick |-> 0, applied |-> <<>>]

\* Runtime::tick(), after Runtime::run_statements on the statements of one
\* block: the block joins the applied sequence and the tick advances by one.
run_block(rt, blk) ==
  [tick |-> rt.tick + 1, applied |-> Append(rt.applied, blk)]

\* Runtime::rollback(tick): back to the latest snapshot at or below the tick
\* asked for.  keep is the set of ticks above 0 that still have a snapshot;
\* the state at tick 0 always has one.  A runtime at or below the tick asked
\* for is left alone.
rollback(rt, tick, keep) ==
  IF rt.tick <= tick
    THEN rt
    ELSE LET snaps == {0} \cup {s \in keep : s <= tick}
             to    == CHOOSE s \in snaps : \A o \in snaps : o <= s
         IN [tick |-> to, applied |-> SubSeq(rt.applied, 1, to)]

\* The result vector Runtime::run_statements returns for a block: one result
\* per statement, each depending on the runtime state it ran in.
run_results(rt, body) == [i \in 1 .. Len(body) |-> <<body[i], rt.tick>>]

\* Node::compute_block
compute_block(S, blk) ==
  [S EXCEPT !.results = Insert(S.results, hash_block(blk),
                               run_results(S.runtime, blk.body)),
            !.runtime = run_block(S.runtime, blk)]

\* ------------------------------------------------------------------------
\* Node::add_block
\* ------------------------------------------------------------------------

\* Inserts the block with zeroed work, height and target and no children.
insert_shell(S, bhash, blk) ==
  [S EXCEPT !.block = Insert(S.block, bhash, blk),
            !.work = Insert(S.work, bhash, 0),
            !.height = Insert(S.height, bhash, 0),
            !.target = Insert(S.target, bhash, 0),
            !.children = Insert(S.children, bhash, <<>>)]

\* Checks if this block's PoW hits the target of its parent.
has_enough_work(S, bhash, phash) == bhash >= S.target[phash]

\* Checks if this block's timestamp is larger than its parent's timestamp.
advances_time(S, btime, phash) == btime > S.block[phash].time

\* The hash of the first block of the last period: BLOCKS_PER_PERIOD - 1
\* parent steps from the parent of the new block.
RECURSIVE checkpoint(_, _, _)
checkpoint(S, checkpoint_hash, steps) ==
  IF steps = 0
    THEN checkpoint_hash
    ELSE checkpoint(S, S.block[checkpoint_hash].prev, steps - 1)

\* The target of a block that starts a new period.
period_target(S, phash, blk) ==
  LET checkpoint_hash == checkpoint(S, phash, BLOCKS_PER_PERIOD - 1)
      period_time     == blk.time - S.block[checkpoint_hash].time
      last_target     == S.target[phash]
      next_scaler     == (P32 * TIME_PER_PERIOD) \div period_time
  IN compute_next_target(last_target, next_scaler)

\* starts_period with the period starting on the multiples of its length.
starts_period_on_multiple(h) == h > 0 /\ h % BLOCKS_PER_PERIOD = 0

\* Whether a block at this height starts a new period.
starts_period(h) ==
  h > 0 /\ h > BLOCKS_PER_PERIOD /\ h % BLOCKS_PER_PERIOD = 1

\* populate with the work of the parent left out of the sum.
populate_own_work(S, bhash, phash, blk) ==
  LET h  == S.height[phash] + 1
      S1 == [S EXCEPT !.work = Insert(S.work, bhash, get_hash_work(bhash)),
                      !.height = Insert(S.height, bhash, h)]
  IN [S1 EXCEPT !.target =
        Insert(S1.target, bhash,
               IF starts_period(h)
                 THEN period_target(S1, phash, blk)
                 ELSE S1.target[phash])]

\* Sets the accumulated work, the height and the target of a block that
\* passed the validity check.
populate(S, bhash, phash, blk) ==
  LET h  == S.height[phash] + 1
      S1 == [S EXCEPT !.work = Insert(S.work, bhash,
                                      S.work[phash] + get_hash_work(bhash)),
                      !.height = Insert(S.height, bhash, h)]
  IN [S1 EXCEPT !.target =
        Insert(S1.target, bhash,
               IF starts_period(h)
                 THEN period_target(S1, phash, blk)
                 ELSE S1.target[phash])]

\* Flags this block's transactions as mined.
pool_sweep(S, blk) ==
  [S EXCEPT !.pool = S.pool \ {blk.body[i] : i \in 1 .. Len(blk.body)}]

\* Reorg step 1: walks the new timeline down to the height of the old tip.
RECURSIVE walk_new(_, _, _, _)
walk_new(S, new_bhash, old_bhash, must_compute) ==
  IF S.height[new_bhash] > S.height[old_bhash]
    THEN walk_new(S, S.block[new_bhash].prev, old_bhash,
                  Append(must_compute, new_bhash))
    ELSE [new_bhash |-> new_bhash, must_compute |-> must_compute]

\* Reorg step 1, second loop: walks the old timeline down to the same height.
RECURSIVE walk_old(_, _, _)
walk_old(S, old_bhash, new_bhash) ==
  IF S.height[old_bhash] > S.height[new_bhash]
    THEN walk_old(S, S.block[old_bhash].prev, new_bhash)
    ELSE old_bhash

\* Reorg step 2: walks both timelines down to the block they share.
RECURSIVE walk_both(_, _, _, _)
walk_both(S, old_bhash, new_bhash, must_compute) ==
  IF old_bhash # new_bhash
    THEN walk_both(S, S.block[old_bhash].prev, S.block[new_bhash].prev,
                   Append(must_compute, new_bhash))
    ELSE [old_bhash |-> old_bhash, new_bhash |-> new_bhash,
          must_compute |-> must_compute]

\* Reorg step 3: saves the blocks to disk, each in the file named by its
\* height (hashes is must_compute reversed).
RECURSIVE save_blocks(_, _)
save_blocks(S, hashes) ==
  IF hashes = <<>>
    THEN S
    ELSE save_blocks(
           [S EXCEPT !.disk = Insert(S.disk, S.height[Head(hashes)],
                                     S.block[Head(hashes)])],
           Tail(hashes))

\* walk_snapshot that leaves must_compute as it is.
walk_snapshot_none(S, tick, new_bhash, must_compute) == must_compute

\* Reorg step 5: extends must_compute down to the last block included in
\* the reverted runtime state.
RECURSIVE walk_snapshot(_, _, _, _)
walk_snapshot(S, tick, new_bhash, must_compute) ==
  IF tick > S.runtime.tick
    THEN walk_snapshot(S, tick - 1, S.block[new_bhash].prev,
                       Append(must_compute, new_bhash))
    ELSE must_compute

\* Reorg step 6: computes every block (hashes is must_compute reversed).
RECURSIVE compute_blocks(_, _)
compute_blocks(S, hashes) ==
  IF hashes = <<>>
    THEN S
    ELSE compute_blocks(compute_block(S, S.block[Head(hashes)]), Tail(hashes))

\* The reorganization from old_tip to new_tip.
reorg(S, old_tip, new_tip, keep) ==
  LET w1   == walk_new(S, new_tip, old_tip, <<>>)
      old1 == walk_old(S, old_tip, w1.new_bhash)
      w2   == walk_both(S, old1, w1.new_bhash, w1.must_compute)
      S3   == save_blocks(S, Reverse(w2.must_compute))
      tick == S3.height[w2.old_bhash]
      S4   == [S3 EXCEPT !.runtime = rollback(S3.runtime, tick, keep)]
      mc5  == walk_snapshot(S4, tick, w2.new_bhash, w2.must_compute)
      S5   == [S4 EXCEPT !.replay = [old |-> old_tip, new |-> new_tip,
                                     landed |-> S4.runtime.tick,
                                     computed |-> Reverse(mc5)]]
  IN compute_blocks(S5, Reverse(mc5))

\* beats_tip comparing heights: the longest chain instead of the heaviest.
beats_tip_by_height(S, new_tip, old_tip) ==
  S.height[new_tip] > S.height[old_tip]

\* beats_tip with >= in place of >.
beats_tip_or_ties(S, new_tip, old_tip) == S.work[new_tip] >= S.work[old_tip]

\* Whether the new block replaces the tip.
beats_tip(S, new_tip, old_tip) == S.work[new_tip] > S.work[old_tip]

\* Updates the tip and, when it moves, reorganizes.
fork_choice(S, bhash, keep) ==
  LET old_tip == S.tip
      new_tip == bhash
  IN IF beats_tip(S, new_tip, old_tip)
       THEN reorg([S EXCEPT !.tip = bhash], old_tip, new_tip, keep)
       ELSE S

\* Registers this block as a child of its parent.
child_link(S, phash, bhash) ==
  [S EXCEPT !.children = Insert(S.children, phash, <<bhash>>)]

\* Moves the blocks waiting for bhash from waiting to must_include; a hash
\* of the wait list that is not in waiting panics (expect).
RECURSIVE take_waiting(_, _, _)
take_waiting(S, list, must_include) ==
  IF list = <<>>
    THEN [S |-> S, must_include |-> must_include]
    ELSE IF Head(list) \notin DOMAIN S.waiting
      THEN [S |-> [S EXCEPT !.crashed = TRUE], must_include |-> must_include]
      ELSE take_waiting([S EXCEPT !.waiting = Remove(S.waiting, Head(list)),
                                  !.promoted = S.promoted + 1],
                        Tail(list),
                        Append(must_include, S.waiting[Head(list)]))

\* promote that drops the list without including the blocks on it.
promote_forgets(S, bhash, must_include) ==
  [S |-> [S EXCEPT !.wait_list = Remove(S.wait_list, bhash)],
   must_include |-> must_include]

\* If there were blocks waiting for this one, includes them on the next loop.
promote(S, bhash, must_include) ==
  IF bhash \in DOMAIN S.wait_list
    THEN LET t == take_waiting(S, S.wait_list[bhash], must_include)
         IN IF t.S.crashed
              THEN t
              ELSE [S |-> [t.S EXCEPT !.wait_list = Remove(t.S.wait_list, bhash)],
                    must_include |-> t.must_include]
    ELSE [S |-> S, must_include |-> must_include]

\* gate with the block stored in waiting under its parent's hash.
gate_under_parent(S, bhash, phash, blk) ==
  [S EXCEPT !.waiting = Insert(S.waiting, phash, blk),
            !.wait_list = Insert(S.wait_list, phash, <<bhash>>)]

\* Includes this block on waiting, and on its parent's wait_list.
gate(S, bhash, phash, blk) ==
  [S EXCEPT !.waiting = Insert(S.waiting, bhash, blk),
            !.wait_list = Insert(S.wait_list, phash, <<bhash>>)]

\* include with work, height and target set before the validity check, which
\* then guards the fork choice alone.
include_populate_first(S, bhash, phash, blk, keep) ==
  LET S1 == populate(insert_shell(S, bhash, blk), bhash, phash, blk)
      S2 == IF has_enough_work(S1, bhash, phash)
               /\ advances_time(S1, blk.time, phash)
              THEN fork_choice(pool_sweep(S1, blk), bhash, keep)
              ELSE [S1 EXCEPT !.failed = S1.failed \cup {bhash}]
  IN child_link(S2, phash, bhash)

\* The branch of a block whose parent is available.
include(S, bhash, phash, blk, keep) ==
  LET S1 == insert_shell(S, bhash, blk)
      S2 == IF has_enough_work(S1, bhash, phash)
               /\ advances_time(S1, blk.time, phash)
              THEN fork_choice(pool_sweep(populate(S1, bhash, phash, blk), blk),
                               bhash, keep)
              ELSE [S1 EXCEPT !.failed = S1.failed \cup {bhash}]
  IN child_link(S2, phash, bhash)

\* too_late with > in place of >=.
too_late_strict(blk, time) == blk.time > time + DELAY_TOLERANCE

\* Whether the block is too far into the future to be handled.
too_late(blk, time) == blk.time >= time + DELAY_TOLERANCE

\* is_included answering no for every hash.
is_included_never(S, bhash) == FALSE

\* Whether the block is already included (processed).
is_included(S, bhash) == bhash \in DOMAIN S.block

\* The loop of add_block over must_include, the last element being the next
\* to pop.  time is get_time(), keep the snapshots the runtime holds.
RECURSIVE add_block_loop(_, _, _, _)
add_block_loop(S, must_include, time, keep) ==
  IF must_include = <<>> \/ S.crashed
    THEN S
    ELSE
      LET blk   == must_include[Len(must_include)]
          rest  == SubSeq(must_include, 1, Len(must_include) - 1)
          bhash == hash_block(blk)
          phash == blk.prev
      IN IF too_late(blk, time)
           THEN add_block_loop(S, rest, time, keep)
           ELSE IF is_included(S, bhash)
             THEN add_block_loop(S, rest, time, keep)
             ELSE IF phash \in DOMAIN S.block
               THEN LET p == promote(include(S, bhash, phash, blk, keep),
                                     bhash, rest)
                    IN add_block_loop(p.S, p.must_include, time, keep)
               ELSE IF bhash \notin DOMAIN S.waiting
                 THEN add_block_loop(gate(S, bhash, phash, blk), rest, time, keep)
                 ELSE add_block_loop(S, rest, time, keep)

add_block(S, blk, time, keep) == add_block_loop(S, <<blk>>, time, keep)

\* The first wall-clock reading.
NowInit == 1 * 1000

\* No reorg has run yet.
NoReplay ==
  [old |-> ZERO_HASH, new |-> ZERO_HASH, landed |-> 0, computed |-> <<>>]

\* No pure function is being applied.
NoCall == [fn |-> "none"]

\* Node::new
NodeNew ==
  /\ block = (ZERO_HASH :> GENESIS_BLOCK)
  /\ waiting = EmptyMap
  /\ wait_list = EmptyMap
  /\ children = (ZERO_HASH :> <<>>)
  /\ work = (ZERO_HASH :> 0)
  /\ height = (ZERO_HASH :> 0)
  /\ target = (ZERO_HASH :> INITIAL_TARGET)
  /\ results = (ZERO_HASH :> <<>>)
  /\ tip = ZERO_HASH
  /\ pool = {}
  /\ runtime = init_runtime
  /\ disk = EmptyMap
  /\ failed = {}
  /\ promoted = 0
  /\ replay = NoReplay
  /\ crashed = FALSE
  /\ now = NowInit
  /\ calls = 0

\* MinerComm::Stop, MinerComm::Request and MinerComm::Answer.
Stop == [kind |-> "Stop"]

Request(prev, body, targ) ==
  [kind |-> "Request", prev |-> prev, body |-> body, targ |-> targ]

Answer(blk) == [kind |-> "Answer", block |-> blk]

\* No datagram was handled.
NoMessage == [kind |-> "none"]

\* new_miner_comm, the miner thread before its first read of the mailbox, the
\* node before its first tick.
IoNew ==
  /\ miner_comm = Stop
  /\ miner = [pc |-> "read", job |-> Stop, time |-> 0, rand |-> 0,
              trials |-> 0, found |-> FALSE]
  /\ node_pc = "read_miner"
  /\ ticks = 0
  /\ consumed = FALSE
  /\ inbox = NoMessage
  /\ outbox = <<>>
  /\ hung = FALSE

Init ==
  /\ NodeNew
  /\ IoNew
  /\ fn_in = NoCall
  /\ fn_out = NoCall

\* ------------------------------------------------------------------------
\* What the node is given
\* ------------------------------------------------------------------------

\* The transactions clients submit.
Txs == {1}

\* A timestamp that the first clock reading finds too far in the future.
TimeFar == NowInit + DELAY_TOLERANCE

BlockX == Blk(ZERO_HASH, 1000, 0, <<>>)

BlockA == Blk(ZERO_HASH, 1000, 1, <<>>)

BlockA2 == Blk(ZERO_HASH, 2000, 1, <<>>)

BlockH == Blk(ZERO_HASH, 2000, 2, <<>>)

BlockF == Blk(ZERO_HASH, TimeFar, 1, <<>>)

BlockB == Blk(hash_block(BlockA), 2000, 1, <<1>>)

BlockB2 == Blk(hash_block(BlockA), 3000, 1, <<>>)

BlockBH == Blk(hash_block(BlockA), 2000, 2, <<>>)

BlockBT == Blk(hash_block(BlockA), 1000, 1, <<>>)

BlockD == Blk(hash_block(BlockBT), 2000, 2, <<>>)

BlockY == Blk(hash_block(BlockX), 2000, 0, <<>>)

BlockYC == Blk(hash_block(BlockY), 3000, 0, <<>>)

BlockZ == Blk(HASH_EMPTY, 1000, 1, <<>>)

BlockC == Blk(hash_block(BlockB), 3000, 1, <<>>)

BlockO == Blk(HASH_EMPTY, 0, 0, <<>>)

BlockO2 == Blk(hash_block(BlockA), 0, 0, <<>>)

\* The blocks peers, the miner and the block log deliver: the genesis block
\* again, blocks that miss the target or do not advance time, siblings,
\* forks of different weight, a block from the future, and blocks of time 0.
Universe ==
  {GENESIS_BLOCK, BlockX, BlockA, BlockA2, BlockH, BlockF, BlockB, BlockB2,
   BlockBH, BlockBT, BlockD, BlockY, BlockYC, BlockZ, BlockC, BlockO,
   BlockO2}

\* The ticks above 0 at which the runtime may hold a snapshot.
SnapshotTicks == {1, 2}

\* ------------------------------------------------------------------------
\* Actions
\* ------------------------------------------------------------------------

\* A block reaches add_block (from a NoticeThisBlock message, from the miner
\* or from the block log) and the call runs to its end.
AddBlock(blk, keep) ==
  /\ ~crashed
  /\ calls < MaxCalls
  /\ SetNode(add_block(NodeState, blk, now, keep))
  /\ calls' = calls + 1
  /\ now' = now
  /\ UNCHANGED <<fn_in, fn_out, io_vars>>

\* Message::PleaseMineThisTransaction
PleaseMineThisTransaction(trans) ==
  /\ ~crashed
  /\ trans \notin pool
  /\ pool' = pool \cup {trans}
  /\ UNCHANGED <<block, waiting, wait_list, children, work, target, height,
                 results, tip, runtime, disk, failed, promoted, replay,
                 crashed, now, calls, fn_in, fn_out, io_vars>>

\* The wall clock advances.
ClockTick ==
  /\ ~crashed
  /\ now < NowInit + MaxClockSteps * 1000
  /\ now' = now + 1000
  /\ UNCHANGED <<block, waiting, wait_list, children, work, target, height,
                 results, tip, pool, runtime, disk, failed, promoted, replay,
                 crashed, calls, fn_in, fn_out, io_vars>>

Next ==
  \/ \E blk \in Universe, keep \in SUBSET SnapshotTicks : AddBlock(blk, keep)
  \/ \E trans \in Txs : PleaseMineThisTransaction(trans)
  \/ ClockTick

Spec == Init /\ [][Next]_vars

\* The height up to which the tip is extended.
MaxHeight == 42

\* The time between a block and its parent, in milliseconds.
Paces == {TIME_PER_BLOCK \div 2, TIME_PER_BLOCK, TIME_PER_BLOCK * 2}

\* The nonces try_mine goes through, in order.
Nonces == 2 .. 17

\* Whether the block with this nonce hits the target, its digest being new.
hits(prev, time, rand, targ) ==
  /\ Keccak(prev, time, rand, <<>>) >= targ
  /\ Keccak(prev, time, rand, <<>>) \notin DOMAIN block

\* try_mine: the block with the first nonce that hits the target.
try_mine(prev, time, targ) ==
  LET rand == CHOOSE r \in Nonces :
                /\ hits(prev, time, r, targ)
                /\ \A q \in Nonces : q < r => ~hits(prev, time, q, targ)
  IN Blk(prev, time, rand, <<>>)

\* A block mined on the tip reaches add_block, dt after the time of the tip.
\* The pace is free every half period and kept in between.
ExtendTip(dt) ==
  /\ ~crashed
  /\ height[tip] < MaxHeight
  /\ height[tip] % (BLOCKS_PER_PERIOD \div 2) # 0 =>
       dt = block[tip].time - block[block[tip].prev].time
  /\ \E r \in Nonces : hits(tip, block[tip].time + dt, r, target[tip])
  /\ SetNode(add_block(NodeState,
                       try_mine(tip, block[tip].time + dt, target[tip]),
                       now, {}))
  /\ UNCHANGED <<now, calls, fn_in, fn_out, io_vars>>

NextRetarget == \E dt \in Paces : ExtendTip(dt)

SpecRetarget == Init /\ [][NextRetarget]_vars

\* ------------------------------------------------------------------------
\* The miner thread and the tick of the main loop
\* ------------------------------------------------------------------------

MINE_ATTEMPTS == 1024

\* The ticks the main loop goes through.
MaxTicks == 3

\* The nonces rand::random gives try_mine to start from: one whose second
\* trial hits the initial target, one whose first trial does, and one from
\* which no trial out of MINE_ATTEMPTS does.
RandStarts == {0, 2, 18}

\* The blocks peers deliver while the miner works.
MinerPeers == {BlockA, BlockA2}

\* A miner that answers with the block of its first trial, hit or miss.
try_mine_first_trial(prev, body, targ, max_attempts, rand, time) ==
  [some |-> TRUE, block |-> Blk(prev, time, rand, body), trials |-> 1]

\* try_mine from the nonce and the time it drew: the block of the first trial
\* whose hash reaches the target, or None after max_attempts trials. (The
\* nonces stay far below 2^128: wrapping_add does not wrap.)
try_mine_attempts(prev, body, targ, max_attempts, rand, time) ==
  LET hit == {k \in 0 .. max_attempts - 1 :
                hash_block(Blk(prev, time, rand + k, body)) >= targ}
      first == CHOOSE k \in hit : \A j \in hit : k <= j
  IN IF hit = {}
       THEN [some |-> FALSE,
             block |-> Blk(prev, time, rand + max_attempts, body),
             trials |-> max_attempts]
       ELSE [some |-> TRUE,
             block |-> Blk(prev, time, rand + first, body),
             trials |-> first + 1]

\* self.pool.iter() as build_body packs it: the transactions in order.
RECURSIVE pool_body(_)
pool_body(txs) ==
  IF txs = {}
    THEN <<>>
    ELSE LET trans == CHOOSE t \in txs : \A u \in txs : t <= u
         IN <<trans>> \o pool_body(txs \ {trans})

\* ask_mine: the Request the node writes.
ask_mine(S) == Request(S.tip, pool_body(S.pool), S.target[S.tip])

\* miner_loop reads a Request from the mailbox, and try_mine draws its nonce
\* and reads the clock.
MinerRead(rand) ==
  /\ miner.pc = "read"
  /\ miner_comm.kind = "Request"
  /\ miner' = [pc |-> "mine", job |-> miner_comm, time |-> now,
               rand |-> rand, trials |-> 0, found |-> FALSE]
  /\ UNCHANGED <<block, waiting, wait_list, children, work, target, height,
                 results, tip, pool, runtime, disk, failed, promoted, replay,
                 crashed, now, calls, fn_in, fn_out, miner_comm, node_pc,
                 ticks, consumed, net_vars>>

\* try_mine returns, and miner_loop writes the Answer if there is one.
MinerFinish ==
  /\ miner.pc = "mine"
  /\ LET mined == try_mine_attempts(miner.job.prev, miner.job.body,
                                    miner.job.targ, MINE_ATTEMPTS, miner.rand,
                                    miner.time)
     IN /\ miner' = [miner EXCEPT !.pc = "read", !.trials = mined.trials,
                                  !.found = mined.some]
        /\ miner_comm' = IF mined.some THEN Answer(mined.block)
                                       ELSE miner_comm
        /\ consumed' = IF mined.some THEN FALSE ELSE consumed
  /\ UNCHANGED <<block, waiting, wait_list, children, work, target, height,
                 results, tip, pool, runtime, disk, failed, promoted, replay,
                 crashed, now, calls, fn_in, fn_out, node_pc, ticks, net_vars>>

\* The head of the tick: the node reads the mailbox and registers the block
\* of an Answer. The mailbox keeps its content.
NodeReadMiner(keep) ==
  /\ ~crashed
  /\ node_pc = "read_miner"
  /\ ticks < MaxTicks
  /\ node_pc' = "receive"
  /\ IF miner_comm.kind = "Answer"
       THEN /\ is_included(NodeState, hash_block(miner_comm.block))
                 \/ calls < MaxCalls
            /\ SetNode(add_block(NodeState, miner_comm.block, now, keep))
            /\ calls' = IF is_included(NodeState,
                                       hash_block(miner_comm.block))
                          THEN calls ELSE calls + 1
            /\ consumed' = TRUE
       ELSE /\ keep = {}
            /\ UNCHANGED <<block, waiting, wait_list, children, work, target,
                           height, results, tip, pool, runtime, disk, failed,
                           promoted, replay, crashed, calls, consumed>>
  /\ UNCHANGED <<now, fn_in, fn_out, miner_comm, miner, ticks, net_vars>>

\* receive_message hands the block of a peer to add_block.
NodeReceiveBlock(blk, keep) ==
  /\ node_pc = "receive"
  /\ AddBlock(blk, keep)

\* receive_message takes a transaction for the pool.
NodeReceiveTransaction(trans) ==
  /\ node_pc = "receive"
  /\ PleaseMineThisTransaction(trans)

\* The tail of a tick that is a multiple of TICKS_PER_SEC: ask_mine.
NodeAskMine ==
  /\ ~crashed
  /\ node_pc = "receive"
  /\ node_pc' = "read_miner"
  /\ ticks' = ticks + 1
  /\ miner_comm' = ask_mine(NodeState)
  /\ consumed' = FALSE
  /\ UNCHANGED <<block, waiting, wait_list, children, work, target, height,
                 results, tip, pool, runtime, disk, failed, promoted, replay,
                 crashed, now, calls, fn_in, fn_out, miner, net_vars>>

\* The tail of any other tick.
NodeEndTick ==
  /\ ~crashed
  /\ node_pc = "receive"
  /\ node_pc' = "read_miner"
  /\ ticks' = ticks + 1
  /\ UNCHANGED <<block, waiting, wait_list, children, work, target, height,
                 results, tip, pool, runtime, disk, failed, promoted, replay,
                 crashed, now, calls, fn_in, fn_out, miner_comm, miner,
                 consumed, net_vars>>

NextMiner ==
  \/ \E rand \in RandStarts : MinerRead(rand)
  \/ MinerFinish
  \/ NodeReadMiner({})
  \/ \E blk \in MinerPeers : NodeReceiveBlock(blk, {})
  \/ \E trans \in Txs : NodeReceiveTransaction(trans)
  \/ NodeAskMine
  \/ NodeEndTick

SpecMiner == Init /\ [][NextMiner]_vars

\* ------------------------------------------------------------------------
\* The handlers of the datagrams
\* ------------------------------------------------------------------------

SEND_BLOCK_ANCESTORS == 64

\* The addresses datagrams come from.
Addrs == {1, 2}

\* The blocks NoticeThisBlock delivers: a chain of three with a sibling on
\* the second level, a block from the future, and a block of time 0 that
\* names its own hash as prev.
NetUniverse == {BlockA, BlockB, BlockB2, BlockC, BlockF, BlockO}

\* The height up to which the chain that is served grows.
MaxChain == 66

\* Message::NoticeThisBlock and Message::GiveMeThatBlock, with the address
\* they come from or go to.
NoticeFrom(addr, blk, istip) ==
  [kind |-> "NoticeThisBlock", addr |-> addr, block |-> blk, istip |-> istip]

GiveMeFrom(addr, bhash) ==
  [kind |-> "GiveMeThatBlock", addr |-> addr, bhash |-> bhash]

\* send_block_to
send_block_to(addr, blk, istip) == NoticeFrom(addr, blk, istip)

\* The chunk of GiveMeThatBlock without the limit on its length.
RECURSIVE chunk_whole(_, _, _)
chunk_whole(S, bhash, len) ==
  IF bhash \in DOMAIN S.block /\ bhash # ZERO_HASH
    THEN <<S.block[bhash]>> \o chunk_whole(S, S.block[bhash].prev, len + 1)
    ELSE <<>>

\* The chunk GiveMeThatBlock collects: the block asked for and its ancestors,
\* len of them being collected already.
RECURSIVE chunk(_, _, _)
chunk(S, bhash, len) ==
  IF bhash \in DOMAIN S.block /\ bhash # ZERO_HASH
     /\ len < SEND_BLOCK_ANCESTORS
    THEN <<S.block[bhash]>> \o chunk(S, S.block[bhash].prev, len + 1)
    ELSE <<>>

\* The datagrams GiveMeThatBlock sends back.
give_me_that_block(S, addr, bhash) ==
  LET blocks == chunk(S, bhash, 0)
  IN [i \in 1 .. Len(blocks) |-> send_block_to(addr, blocks[i], FALSE)]

\* The walk of NoticeThisBlock from a hash upward through waiting. It ends
\* at the first hash that is not a key of waiting; it does not end when it
\* comes back to a hash it has been at.
RECURSIVE first_missing(_, _, _)
first_missing(S, missing, seen) ==
  IF missing \in seen
    THEN [ends |-> FALSE, missing |-> missing]
    ELSE IF missing \in DOMAIN S.waiting
      THEN first_missing(S, S.waiting[missing].prev, seen \cup {missing})
      ELSE [ends |-> TRUE, missing |-> missing]

\* Message::GiveMeThatBlock
GiveMeThatBlock(addr, bhash) ==
  /\ ~crashed
  /\ ~hung
  /\ inbox' = GiveMeFrom(addr, bhash)
  /\ outbox' = give_me_that_block(NodeState, addr, bhash)
  /\ UNCHANGED <<block, waiting, wait_list, children, work, target, height,
                 results, tip, pool, runtime, disk, failed, promoted, replay,
                 crashed, now, calls, fn_in, fn_out, miner_comm, miner,
                 node_pc, ticks, consumed, hung>>

\* Message::NoticeThisBlock
NoticeThisBlock(addr, blk, istip, keep) ==
  /\ ~crashed
  /\ ~hung
  /\ calls < MaxCalls
  /\ LET S1 == add_block(NodeState, blk, now, keep)
         bhash == hash_block(blk)
         asks == istip /\ ~S1.crashed /\ bhash \notin DOMAIN S1.block
         walk == first_missing(S1, bhash, {})
     IN /\ SetNode(S1)
        /\ hung' = (asks /\ ~walk.ends)
        /\ outbox' = IF asks /\ walk.ends
                       THEN <<GiveMeFrom(addr, walk.missing)>>
                       ELSE <<>>
  /\ inbox' = NoticeFrom(addr, blk, istip)
  /\ calls' = calls + 1
  /\ UNCHANGED <<now, fn_in, fn_out, miner_comm, miner, node_pc, ticks,
                 consumed>>

NextNet ==
  \E addr \in Addrs, blk \in NetUniverse, istip \in BOOLEAN :
    NoticeThisBlock(addr, blk, istip, {})

SpecNet == Init /\ [][NextNet]_vars

\* A block mined on the tip, one TIME_PER_BLOCK after it, reaches add_block.
GrowChain ==
  /\ ~crashed
  /\ height[tip] < MaxChain
  /\ \E r \in Nonces :
       hits(tip, block[tip].time + TIME_PER_BLOCK, r, target[tip])
  /\ SetNode(add_block(NodeState,
                       try_mine(tip, block[tip].time + TIME_PER_BLOCK,
                                target[tip]),
                       now, {}))
  /\ inbox' = NoMessage
  /\ outbox' = <<>>
  /\ UNCHANGED <<now, calls, fn_in, fn_out, miner_comm, miner, node_pc, ticks,
                 consumed, hung>>

\* The hashes a peer asks for: the tip, its parent, the block at height 1,
\* the genesis entry, and a hash the node does not have.
Asked ==
  {tip, block[tip].prev, ZERO_HASH, hash_block(BlockX)}
    \cup {h \in DOMAIN block : height[h] = 1}

NextServe ==
  \/ GrowChain
  \/ \E addr \in Addrs, bhash \in Asked : GiveMeThatBlock(addr, bhash)

SpecServe == Init /\ [][NextServe]_vars

\* ------------------------------------------------------------------------
\* The pure functions, applied
\* ------------------------------------------------------------------------

\* The largest difficulty of the round trip: the square root of P256 + 1.
MaxDifficulty == 2^10

\* The data lengths of the transactions in the pool.
TxLens == {5, 10, 255, 260, 1270}

\* The longest pool.
MaxPool == 3

\* A transaction of len bytes, made by Transaction::new.
TxOfLen(len, tag) ==
  Transaction_new([i \in 1 .. len |-> (len + i + tag) % 256])

\* Six transactions of 255 bytes: the records of five overflow the body.
CrowdedPool == [tag \in 1 .. 6 |-> TxOfLen(255, tag)]

\* The pools, as the sequence pool.iter() yields: distinct transactions, up
\* to MaxPool of them of any of the lengths, or the first ones of the crowd.
Pools ==
  {p \in UNION {[1 .. n -> {TxOfLen(len, 0) : len \in TxLens}] :
                 n \in 0 .. MaxPool} :
     \A i, j \in 1 .. Len(p) : i # j => p[i] # p[j]}
  \cup {SubSeq(CrowdedPool, 1, n) : n \in 4 .. Len(CrowdedPool)}

\* The targets compute_next_target is given: those of some difficulties,
\* and the ends of the target space.
Targets ==
  {difficulty_to_target(d) :
     d \in {1, 2, 3, 5, 255, INITIAL_DIFFICULTY, 257, 1000, MaxDifficulty}}
  \cup {1, 2^19, P256 - 2, P256 - 1, P256}

\* The scales: half, once and twice the fixed point, and others.
Scales == {1, 3, P32 \div 2, P32 - 1, P32, P32 + 1, 2 * P32, 3 * P32, 1000}

\* The calls made.
Calls ==
  {[fn |-> "target_to_difficulty", difficulty |-> d] : d \in 1 .. MaxDifficulty}
  \cup {[fn |-> "compute_next_target", last_target |-> t, scale |-> k] :
          t \in Targets, k \in Scales}
  \cup {[fn |-> "len_byte_to_len", len_byte |-> lb, checks |-> c] :
          lb \in 0 .. 255, c \in BOOLEAN}
  \cup {[fn |-> "build_body", pool |-> p, checks |-> c] :
          p \in Pools, c \in BOOLEAN}

InitFn ==
  /\ NodeNew
  /\ IoNew
  /\ fn_in \in Calls
  /\ fn_out = NoCall

node_vars ==
  <<block, waiting, wait_list, children, work, target, height, results,
    tip, pool, runtime, disk, failed, promoted, replay, crashed, now, calls>>

\* target_to_difficulty(difficulty_to_target(difficulty))
RoundTrip ==
  /\ fn_in.fn = "target_to_difficulty"
  /\ fn_out = NoCall
  /\ fn_out' = [fn |-> "target_to_difficulty",
                val |-> target_to_difficulty(
                          difficulty_to_target(fn_in.difficulty))]
  /\ UNCHANGED <<node_vars, io_vars, fn_in>>

\* extract_transactions(build_body())
BuildAndExtract ==
  /\ fn_in.fn = "build_body"
  /\ fn_out = NoCall
  /\ LET body == build_body(fn_in.pool, fn_in.checks)
     IN fn_out' =
          IF body.ok
            THEN LET x == extract_transactions(body.value, fn_in.checks)
                 IN [fn |-> "build_body", ok |-> x.ok, packed |-> body.packed,
                     transactions |-> x.transactions]
            ELSE [fn |-> "build_body", ok |-> FALSE, packed |-> 0,
                  transactions |-> <<>>]
  /\ UNCHANGED <<node_vars, io_vars, fn_in>>

\* compute_next_target(last_target, scale)
ComputeNextTarget ==
  /\ fn_in.fn = "compute_next_target"
  /\ fn_out = NoCall
  /\ fn_out' =
       IF compute_next_target_panics(fn_in.last_target, fn_in.scale)
         THEN [fn |-> "compute_next_target", ok |-> FALSE, val |-> 0]
         ELSE [fn |-> "compute_next_target", ok |-> TRUE,
               val |-> compute_next_target(fn_in.last_target, fn_in.scale)]
  /\ UNCHANGED <<node_vars, io_vars, fn_in>>

\* Transaction::len_byte_to_len(len_byte)
LenByteToLen ==
  /\ fn_in.fn = "len_byte_to_len"
  /\ fn_out = NoCall
  /\ LET len_used == len_byte_to_len(fn_in.len_byte, fn_in.checks)
     IN fn_out' = [fn |-> "len_byte_to_len", ok |-> len_used.ok,
                   val |-> len_used.val]
  /\ UNCHANGED <<node_vars, io_vars, fn_in>>

NextFn == RoundTrip \/ BuildAndExtract \/ ComputeNextTarget \/ LenByteToLen

SpecFn == InitFn /\ [][NextFn]_vars

\* Keccak is injective on the blocks delivered, and no digest is P256.
KeccakInjective ==
  \A a, b \in Universe :
    /\ hash_block(a) < P256
    /\ (a.time # 0 /\ b.time # 0 /\ a # b) => hash_block(a) # hash_block(b)
    /\ a.time # 0 => hash_block(a) \notin {HASH_EMPTY, ZERO_HASH}

\* ------------------------------------------------------------------------
\* The graph, read
\* ------------------------------------------------------------------------

\* The included hashes.
Included == DOMAIN block

\* The hashes on the path from genesis (left out) to h, in ascending order.
RECURSIVE chain(_)
chain(h) ==
  IF h = ZERO_HASH THEN <<>> ELSE Append(chain(block[h].prev), h)

\* The blocks on the path from genesis (left out) to h.
chain_blocks(h) == [i \in 1 .. Len(chain(h)) |-> block[chain(h)[i]]]

\* Whether some block of the path from genesis to h failed the validity check.
through_failed(h) == \E i \in 1 .. Len(chain(h)) : chain(h)[i] \in failed

\* Whether no included block has a parent that failed the validity check.
no_child_of_failed ==
  \A H \in Included \ {ZERO_HASH} : block[H].prev \notin failed

\* Node::get_block_info: the empty optional for a hash not in block, a panic
\* when an index lacks the hash, the block info otherwise.
get_block_info(S, hash) ==
  IF hash \notin DOMAIN S.block
    THEN [kind |-> "none"]
    ELSE IF hash \notin DOMAIN S.height \/ hash \notin DOMAIN S.results
      THEN [kind |-> "panic"]
      ELSE [kind |-> "some", block |-> S.block[hash], hash |-> hash,
            height |-> S.height[hash], results |-> S.results[hash]]

\* The hashes a request may name: those of the blocks delivered and genesis.
Hashes == {hash_block(blk) : blk \in Universe} \cup {ZERO_HASH}

\* Whether h is listed among the children of its parent.
is_child(h) ==
  \E i \in 1 .. Len(children[block[h].prev]) : children[block[h].prev][i] = h

\* ------------------------------------------------------------------------
\* Claims
\* ------------------------------------------------------------------------

\* C1: after every add_block call, tip is an included hash and no included
\* hash has more accumulated work than tip.
C1_TipMaximisesWork ==
  /\ tip \in Included
  /\ \A H \in Included : work[tip] >= work[H]

\* C1 witness: a fork in which the tip outweighs an included block of
\* non-zero work that is not its parent.
C1_Witness ==
  \E H \in Included :
    /\ H # tip
    /\ work[H] > 0
    /\ work[H] < work[tip]
    /\ block[tip].prev # H

\* C2: the tip moves only in an add_block call and only to a block whose
\* accumulated work is strictly greater than that of the tip it replaces, so
\* a block that ties with the tip never replaces it.
C2_TipMovesOnlyToMoreWork ==
  [][tip' # tip => (calls' = calls + 1 /\ work'[tip'] > work[tip])]_vars

\* C2 witness: a block that passed the validity check is included with the
\* same accumulated work as the tip and is not the tip.
C2_Witness ==
  \E H \in Included \ failed :
    /\ tip # ZERO_HASH
    /\ H # tip
    /\ H # ZERO_HASH
    /\ work[H] = work[tip]

\* C3 as stated: every included hash other than genesis is one above its
\* parent in height and adds its own hash work to its parent's work.
C3_HeightAndWorkOfEveryIncluded ==
  \A H \in Included \ {ZERO_HASH} :
    /\ height[H] = height[block[H].prev] + 1
    /\ work[H] = work[block[H].prev] + get_hash_work(H)

\* C3 amended: every included hash other than genesis that passed the
\* validity check is one above its parent in height and adds its own hash
\* work to its parent's work; a block that failed the check keeps height 0
\* and work 0.
C3_HeightAndWorkOfValid ==
  /\ \A H \in Included \ ({ZERO_HASH} \cup failed) :
       /\ height[H] = height[block[H].prev] + 1
       /\ work[H] = work[block[H].prev] + get_hash_work(H)
  /\ \A H \in failed : height[H] = 0 /\ work[H] = 0

\* C3 witness: a valid block at height 2 on a valid parent, beside a block
\* that failed the check.
C3_Witness ==
  /\ failed # {}
  /\ \E H \in Included \ failed :
       /\ height[H] = 2
       /\ block[H].prev \notin failed
       /\ work[block[H].prev] > 0

\* C4: after every add_block call no hash is a key of both waiting and block.
C4_WaitingDisjointFromBlock == DOMAIN waiting \cap DOMAIN block = {}

\* C5: every hash listed in a wait_list entry is a key of waiting or of
\* block, and the promotion step never found a listed hash absent from
\* waiting (the process did not panic).
C5_WaitListEntriesKnown ==
  /\ ~crashed
  /\ \A P \in DOMAIN wait_list :
       \A i \in 1 .. Len(wait_list[P]) :
         wait_list[P][i] \in DOMAIN waiting \cup DOMAIN block

\* C5 witness: a promotion has run (a sibling was promoted when BlockA came,
\* which left BlockB in waiting) and a wait_list entry exists.
C5_Witness ==
  /\ hash_block(BlockA) \in Included
  /\ hash_block(BlockB) \in DOMAIN waiting
  /\ wait_list # EmptyMap

\* C6: the runtime's tick never exceeds height[tip] and, add_block having
\* returned, equals it.
C6_TickIsTipHeight ==
  /\ runtime.tick <= height[tip]
  /\ runtime.tick = height[tip]

\* C6, the case left when the fault of C8 is set aside: in a graph where no
\* included block is the child of a block that failed the check, the tick
\* equals height[tip].
C6_TickWithoutChildOfFailed ==
  no_child_of_failed => runtime.tick = height[tip]

\* C7: after every add_block call the blocks the runtime has applied are the
\* blocks of the path genesis -> tip, in order, each once.
C7_RuntimeAppliedCanonicalChain == runtime.applied = chain_blocks(tip)

\* C7, the case left when the fault of C8 is set aside: in a graph where no
\* included block is the child of a block that failed the check, the runtime
\* has applied the path genesis -> tip.
C7_AppliedWithoutChildOfFailed ==
  no_child_of_failed => runtime.applied = chain_blocks(tip)

\* C8: no block with a failed block among its ancestors has non-zero work or
\* is the tip, and no block of the path tip -> genesis failed the check.
C8_NoDescendantOfInvalidPromoted ==
  /\ \A H \in Included \ {ZERO_HASH} :
       through_failed(block[H].prev) => (work[H] = 0 /\ tip # H)
  /\ ~through_failed(tip)

\* C9: a block that failed the validity check has work 0, height 0 and
\* target 0 and is not the tip.
C9_InvalidKeepsZeroAndIsNotTip ==
  \A H \in failed :
    /\ work[H] = 0
    /\ height[H] = 0
    /\ target[H] = 0
    /\ tip # H

\* C9 witness: a block that missed the target and a block that did not
\* advance time have both been inserted, and the tip has moved.
C9_Witness ==
  /\ hash_block(BlockX) \in failed
  /\ hash_block(BlockBT) \in failed
  /\ tip # ZERO_HASH

\* C10: every included hash other than genesis is listed among the children
\* of its parent.
C10_EveryIncludedIsChildOfParent ==
  \A H \in Included \ {ZERO_HASH} : is_child(H)

\* C11: after add_block returns, no block held in waiting has a parent that
\* is included, even when several pending blocks wait on the same parent.
C11_NoWaitingBlockHasIncludedParent ==
  \A H \in DOMAIN waiting : waiting[H].prev \notin Included

\* The variables C12 says a dropped block leaves alone.
graph_vars ==
  <<block, waiting, wait_list, children, work, target, height, tip, pool,
    runtime>>

\* C12: add_block(B) with B.time >= now + DELAY_TOLERANCE leaves block,
\* waiting, wait_list, children, work, target, height, tip, pool and the
\* runtime unchanged, and hash(B) is in neither block nor waiting afterwards;
\* a block with B.time < now + DELAY_TOLERANCE is not dropped by this rule:
\* after the call its hash is in block or in waiting.
C12_FutureBlockIsDroppedWhole ==
  /\ [][\A blk \in Universe, keep \in SUBSET SnapshotTicks :
          (blk.time >= now + DELAY_TOLERANCE /\ AddBlock(blk, keep)) =>
            /\ UNCHANGED graph_vars
            /\ hash_block(blk) \notin DOMAIN block' \cup DOMAIN waiting']_vars
  /\ [](\A blk \in Universe :
          blk.time < now + DELAY_TOLERANCE =>
            LET S == add_block(NodeState, blk, now, {})
            IN hash_block(blk) \in DOMAIN S.block \cup DOMAIN S.waiting)

\* A block of the future was delivered first, with a transaction in the pool:
\* the call is counted and the node holds genesis only.
C12_Witness ==
  /\ calls = 1
  /\ now = NowInit
  /\ pool # {}
  /\ too_late(BlockF, now)
  /\ Included = {ZERO_HASH}
  /\ waiting = EmptyMap

\* A linear chain attached to genesis, each block passing the check.
LinearChain == <<BlockA, BlockB, BlockC>>

\* The hashes of the linear chain.
LinearHashes == {hash_block(LinearChain[i]) : i \in 1 .. Len(LinearChain)}

\* Whether the blocks of the linear chain are the only ones the node has
\* stored so far.
LinearOnly ==
  (DOMAIN block \cup DOMAIN waiting) \subseteq (LinearHashes \cup {ZERO_HASH})

C14_GraphIsAppendOnly ==
  /\ [][\A H \in DOMAIN block :
          /\ H \in DOMAIN block'
          /\ block'[H] = block[H]
          /\ work'[H] = work[H]
          /\ height'[H] = height[H]
          /\ target'[H] = target[H]]_vars
  /\ [](/\ block[ZERO_HASH] = GENESIS_BLOCK
        /\ work[ZERO_HASH] = 0
        /\ height[ZERO_HASH] = 0
        /\ target[ZERO_HASH] = INITIAL_TARGET
        /\ results[ZERO_HASH] = <<>>)

\* Four calls included a chain of three blocks, whose last is tip, and a
\* block with the hash of the genesis block.
C14_Witness ==
  /\ tip = hash_block(BlockC)
  /\ HASH_EMPTY \in Included
  /\ calls = MaxCalls
  /\ runtime.tick > 0

\* The ancestor of h reached by n parent steps.
RECURSIVE ancestor(_, _)
ancestor(h, n) == IF n = 0 THEN h ELSE ancestor(block[h].prev, n - 1)

\* C15: for every block H that passed the validity check: if height[H] >
\* BLOCKS_PER_PERIOD and height[H] mod BLOCKS_PER_PERIOD = 1 then target[H] =
\* compute_next_target(target[prev], floor(P32 * TIME_PER_PERIOD / elapsed)),
\* elapsed > 0 being time(H) minus the time of the ancestor BLOCKS_PER_PERIOD
\* - 1 parent steps above the parent of H, which is BLOCKS_PER_PERIOD heights
\* below H; in every other case target[H] = target[prev].
C15_TargetChangesOnPeriodStartOnly ==
  \A H \in Included \ (failed \cup {ZERO_HASH}) :
    LET prev == block[H].prev
    IN IF height[H] > BLOCKS_PER_PERIOD /\ height[H] % BLOCKS_PER_PERIOD = 1
         THEN LET first   == ancestor(prev, BLOCKS_PER_PERIOD - 1)
                  elapsed == block[H].time - block[first].time
              IN /\ height[first] = height[H] - BLOCKS_PER_PERIOD
                 /\ elapsed > 0
                 /\ target[H] =
                      compute_next_target(
                        target[prev], (P32 * TIME_PER_PERIOD) \div elapsed)
         ELSE target[H] = target[prev]

\* Two periods have ended, the first faster than TIME_PER_PERIOD and the
\* second slower: the target rose at height BLOCKS_PER_PERIOD + 1 and fell at
\* height 2 * BLOCKS_PER_PERIOD + 1.
C15_Witness ==
  \E H, K \in Included \ failed :
    /\ height[H] = BLOCKS_PER_PERIOD + 1
    /\ target[H] > target[block[H].prev]
    /\ height[K] = 2 * BLOCKS_PER_PERIOD + 1
    /\ target[K] < target[block[K].prev]
    /\ K = tip

\* C16: target_to_difficulty(difficulty_to_target(D)) = D for every integer
\* D with 1 <= D <= 2^(w/2), both bounds included, w = 20 being the width of
\* P256 here (2^128 at the width of the code).
C16_RoundTripUpToTheBound ==
  fn_out.fn = "target_to_difficulty" => fn_out.val = fn_in.difficulty

\* C16, amended: the round trip gives D back for every D with
\* 1 <= D < 2^(w/2).
C16_RoundTripBelowTheBound ==
  (fn_out.fn = "target_to_difficulty" /\ fn_in.difficulty < MaxDifficulty)
    => fn_out.val = fn_in.difficulty

\* The round trip was taken from the largest difficulty below the bound.
C16_Witness ==
  /\ fn_out.fn = "target_to_difficulty"
  /\ fn_in.difficulty = MaxDifficulty - 1
  /\ fn_out.val = MaxDifficulty - 1

\* The bytes the records of the first n transactions of the pool take.
RECURSIVE records_size(_, _)
records_size(pool_iter, n) ==
  IF n = 0 THEN 0
  ELSE records_size(pool_iter, n - 1) + 1 + Len(pool_iter[n])

\* The round trip of C17 over the pool of the call.
body_round_trip ==
  /\ fn_out.ok
  /\ fn_out.transactions = SubSeq(fn_in.pool, 1, fn_out.packed)
  /\ 1 + records_size(fn_in.pool, fn_out.packed) <= BODY_SIZE
  /\ fn_out.packed < Len(fn_in.pool) =>
       1 + records_size(fn_in.pool, fn_out.packed + 1) > BODY_SIZE

\* C17: for every pool of transactions whose data length is a positive
\* multiple of 5, extract_transactions(build_body()) returns the transactions
\* build_body packed, in the same order, and they are the longest prefix of
\* the pool's iteration order whose records fit in the 1280-byte body.
C17_BodyRoundTrip ==
  fn_out.fn = "build_body" => body_round_trip

\* The same over the pools whose transactions have at most 255 bytes of data.
C17_BodyRoundTripOfShortTransactions ==
  (/\ fn_out.fn = "build_body"
   /\ \A i \in 1 .. Len(fn_in.pool) : Len(fn_in.pool[i]) <= 255)
    => body_round_trip

\* C18: after every add_block call, every included hash, canonical or not,
\* has an entry in each of children, work, target, height and results, so
\* GetBlock is answered with the block info for an included hash and with the
\* empty optional for any other, never with a failure.
C18_EveryIncludedHashIsIndexed ==
  \A hash \in Hashes :
    IF hash \in Included
      THEN /\ hash \in DOMAIN children
           /\ hash \in DOMAIN work
           /\ hash \in DOMAIN target
           /\ hash \in DOMAIN height
           /\ hash \in DOMAIN results
           /\ get_block_info(NodeState, hash).kind = "some"
      ELSE get_block_info(NodeState, hash).kind = "none"

\* Whether the file named by h holds the block at height h of the canonical
\* chain: some block of the path from genesis to tip has height h, and the
\* file holds every such block.
file_holds_canonical(h) ==
  /\ h \in DOMAIN disk
  /\ \E i \in 1 .. Len(chain(tip)) : height[chain(tip)[i]] = h
  /\ \A i \in 1 .. Len(chain(tip)) :
       height[chain(tip)[i]] = h => disk[h] = block[chain(tip)[i]]

\* C19: the on-disk block log never diverges from the canonical chain: after
\* every add_block call, for every height h with 1 <= h <= height[tip], the
\* file named by h holds the block at height h on the path from genesis to
\* tip.
C19_BlockLogFollowsCanonicalChain ==
  \A h \in 1 .. height[tip] : file_holds_canonical(h)

\* The same in the graphs where no included block has a parent that failed
\* the validity check.
C19_BlockLogWithoutChildOfFailed ==
  no_child_of_failed => C19_BlockLogFollowsCanonicalChain

\* The lowest common ancestor of two included hashes: the last hash their
\* paths from genesis share, genesis if none.
lca(a, b) ==
  LET shared == {i \in 1 .. Len(chain(a)) :
                  i <= Len(chain(b)) /\ chain(a)[i] = chain(b)[i]}
  IN IF shared = {}
       THEN ZERO_HASH
       ELSE chain(a)[CHOOSE i \in shared : \A j \in shared : j <= i]

\* C20: on a graph whose included blocks all passed the validity check, when
\* add_block moved the tip from old to new and the rollback to height[LCA]
\* left the runtime at tick s <= height[LCA], the blocks passed to
\* compute_block are the blocks of the path from genesis to new with heights
\* s + 1 .. height[new], each once and in ascending height order, and results
\* is set for each of them.
C20_ReorgReplaysFromSnapshotToNewTip ==
  (failed = {} /\ replay # NoReplay) =>
    LET s == replay.landed
    IN /\ s <= height[lca(replay.old, replay.new)]
       /\ Len(replay.computed) = height[replay.new] - s
       /\ \A i \in 1 .. Len(replay.computed) :
            /\ replay.computed[i] = chain(replay.new)[s + i]
            /\ height[replay.computed[i]] = s + i
            /\ replay.computed[i] \in DOMAIN results

\* The tip moved to a sibling branch and the runtime was rolled back below
\* the fork: blocks of the shared path were computed again.
C20_Witness ==
  /\ failed = {}
  /\ replay # NoReplay
  /\ lca(replay.old, replay.new) \notin {replay.old, ZERO_HASH}
  /\ replay.landed < height[lca(replay.old, replay.new)]
  /\ Len(replay.computed) >= 2

\* What C21 says compute_next_target returns for the call made, written out
\* on the integers: D is the difficulty of the target given.
next_target_as_claimed ==
  LET D == P256 \div (P256 - fn_in.last_target)
      k == fn_in.scale
  IN /\ fn_out.val = P256 - (P256 \div (1 + ((D * k - 1) \div P32)))
     /\ k = P32 => fn_out.val = P256 - (P256 \div D)
     /\ k = 2 * P32 => fn_out.val = P256 - (P256 \div (2 * D))
     /\ k = P32 \div 2 => fn_out.val = P256 - (P256 \div ((D + 1) \div 2))

C30_RecordLengthOfEveryLengthByte ==
  fn_out.fn = "len_byte_to_len" =>
    /\ fn_out.ok
    /\ fn_out.val = 5 * (fn_in.len_byte + 1)
    /\ 5 * (fn_in.len_byte + 1) <= BODY_SIZE - 5 =>
         /\ len_byte(zeros(5 * (fn_in.len_byte + 1))) = fn_in.len_byte
         /\ fn_out.val = Len(zeros(5 * (fn_in.len_byte + 1)))

\* The same for the length bytes up to 50, the data lengths up to 255.
C30_RecordLengthUpTo255Bytes ==
  (fn_out.fn = "len_byte_to_len" /\ fn_in.len_byte <= 50) =>
    /\ fn_out.ok
    /\ fn_out.val = 5 * (fn_in.len_byte + 1)
    /\ len_byte(zeros(fn_out.val)) = fn_in.len_byte

\* ------------------------------------------------------------------------
\* The mailbox between the node and the miner
\* ------------------------------------------------------------------------

\* C22: every Answer the miner thread writes into the mailbox is consumed:
\* under any interleaving of the miner with the tick of the node, the block
\* of the Answer is passed to add_block before the mailbox is overwritten.
C22_EveryAnswerIsConsumed ==
  [][(miner_comm.kind = "Answer" /\ miner_comm' # miner_comm) => consumed]_vars

\* C23: once the node has posted a Request, the Request in the mailbox is
\* replaced only by a later Request of the node or by an Answer mined for
\* that very Request, never by an Answer mined for a Request posted before
\* it. (Requests are compared by content: an Answer for an older Request
\* with the same prev, body and target passes.)
C23_NoAnswerForAnOlderRequest ==
  [][(miner_comm.kind = "Request" /\ miner_comm'.kind = "Answer")
       => miner.job = miner_comm]_vars

\* C24: every Answer the miner writes has the prev and the body of the
\* Request that was in the mailbox when the miner last read it, and a hash at
\* or above the target of that Request; every Request the node posts carries
\* the tip and the target of the tip at the moment of posting; and try_mine
\* is back at the read of the mailbox after at most MINE_ATTEMPTS trials, all
\* of them spent when it found nothing.
C24_AnswerFitsTheRequestRead ==
  [][/\ (miner_comm'.kind = "Answer" /\ miner_comm' # miner_comm) =>
          /\ miner.pc = "mine"
          /\ miner.job.kind = "Request"
          /\ miner_comm'.block.prev = miner.job.prev
          /\ miner_comm'.block.body = miner.job.body
          /\ hash_block(miner_comm'.block) >= miner.job.targ
     /\ (miner_comm'.kind = "Request" /\ miner_comm' # miner_comm) =>
          /\ miner_comm'.prev = tip
          /\ miner_comm'.targ = target[tip]
          /\ miner_comm'.body = pool_body(pool)
     /\ (miner.pc = "mine" /\ miner' # miner) =>
          /\ miner'.pc = "read"
          /\ miner'.trials <= MINE_ATTEMPTS
          /\ ~miner'.found => /\ miner'.trials = MINE_ATTEMPTS
                              /\ miner_comm' = miner_comm
    ]_vars

\* The miner answered a Request that carried the transaction of the pool,
\* with the block of its second trial.
C24_Witness ==
  /\ miner_comm.kind = "Answer"
  /\ miner.pc = "read"
  /\ miner.found
  /\ miner.trials = 2
  /\ miner.job.body = <<1>>
  /\ miner_comm.block.body = <<1>>

\* C25: when the node consumes an Answer whose block has the current tip as
\* its prev, add_block accepts the block as valid and makes it the new tip,
\* whatever tip the node accepted, one stamped ahead of the clock of the
\* node within DELAY_TOLERANCE included.
C25_AnswerOnTheTipBecomesTheTip ==
  [][(/\ node_pc = "read_miner"
      /\ node_pc' = "receive"
      /\ miner_comm.kind = "Answer"
      /\ miner_comm.block.prev = tip)
       => /\ tip' = hash_block(miner_comm.block)
          /\ tip' \notin failed']_vars

\* ------------------------------------------------------------------------
\* The datagrams the node answers with
\* ------------------------------------------------------------------------

\* C26: the reply to GiveMeThatBlock(H) is a list of at most
\* SEND_BLOCK_ANCESTORS blocks, each sent to the requester as NoticeThisBlock
\* with istip = false: it starts with block[H] and goes on parent by parent
\* (up to the child of the genesis entry, or to the limit), holds included
\* blocks only and never the genesis entry stored under ZERO_HASH, and is
\* empty when H is not included; the graph is unchanged.
C26_ReplyIsTheBlockAndItsAncestors ==
  /\ [](inbox.kind = "GiveMeThatBlock" =>
          LET H == inbox.bhash
              n == Len(outbox)
          IN /\ n <= SEND_BLOCK_ANCESTORS
             /\ H \notin DOMAIN block => n = 0
             /\ (H \in DOMAIN block /\ H # ZERO_HASH) => n >= 1
             /\ \A i \in 1 .. n :
                  /\ outbox[i].kind = "NoticeThisBlock"
                  /\ outbox[i].addr = inbox.addr
                  /\ ~outbox[i].istip
                  /\ ancestor(H, i - 1) \in DOMAIN block
                  /\ ancestor(H, i - 1) # ZERO_HASH
                  /\ outbox[i].block = block[ancestor(H, i - 1)]
             /\ (n >= 1 /\ n < SEND_BLOCK_ANCESTORS) =>
                  outbox[n].block.prev = ZERO_HASH)
  /\ [][inbox'.kind = "GiveMeThatBlock" => UNCHANGED graph_vars]_vars

\* A peer asked for the tip of a chain longer than the limit and was sent
\* SEND_BLOCK_ANCESTORS blocks, the last of them not the child of genesis.
C26_Witness ==
  /\ inbox.kind = "GiveMeThatBlock"
  /\ inbox.bhash = tip
  /\ height[tip] > SEND_BLOCK_ANCESTORS
  /\ Len(outbox) = SEND_BLOCK_ANCESTORS
  /\ outbox[1].block = block[tip]
  /\ outbox[SEND_BLOCK_ANCESTORS].block.prev # ZERO_HASH

\* C27: when NoticeThisBlock(B, istip = true) is handled and hash(B) is not
\* included after add_block, the node sends one GiveMeThatBlock to the
\* originator, naming the first ancestor that was not downloaded yet, a hash
\* in neither waiting nor block. When hash(B) is included, or istip is false,
\* nothing is sent. (Said of the handlers that return.)
C27_AsksForTheFirstMissingAncestor ==
  (inbox.kind = "NoticeThisBlock" /\ ~hung /\ ~crashed) =>
    IF inbox.istip /\ hash_block(inbox.block) \notin DOMAIN block
      THEN /\ Len(outbox) = 1
           /\ outbox[1].kind = "GiveMeThatBlock"
           /\ outbox[1].addr = inbox.addr
           /\ outbox[1].bhash \notin DOMAIN block
           /\ outbox[1].bhash \notin DOMAIN waiting
      ELSE outbox = <<>>

\* C28: handling any NoticeThisBlock is bounded work: the walk from hash(B)
\* upward through waiting reaches a hash that is not a key of waiting after
\* finitely many steps, for every block delivered, blocks of time 0 included.
C28_TheWalkThroughWaitingEnds == ~hung

\* C29: add_block(B) for a block whose hash is included is a no-op: block,
\* waiting, wait_list, children, work, target, height, results, tip, pool and
\* the runtime are unchanged; and add_block(B) twice in a row at the same
\* clock value leaves the state add_block(B) once leaves. (A first call that
\* changed nothing is followed by a second call on the same state.)
C29_AddBlockTwiceIsAddBlockOnce ==
  [](~crashed =>
       \A blk \in Universe :
         LET S1 == add_block(NodeState, blk, now, {})
         IN /\ is_included(NodeState, hash_block(blk)) => S1 = NodeState
            /\ (S1 # NodeState /\ ~S1.crashed) =>
                 add_block(S1, blk, now, {}) = S1)

\* BlockZ was gated with its parent missing, and BlockA is included: adding
\* either of them again changes nothing.
C29_Witness ==
  /\ ~crashed
  /\ hash_block(BlockA) \in DOMAIN block
  /\ hash_block(BlockZ) \in DOMAIN waiting
  /\ add_block(NodeState, BlockA, now, {}) = NodeState
  /\ add_block(NodeState, BlockZ, now, {}) = NodeState

\* ------------------------------------------------------------------------
\* Blocks of time 0
\* ------------------------------------------------------------------------

\* The blocks of the universe whose hash is the hash of the empty string.
TimeZero == {blk \in Universe : blk.time = 0}

\* C31: genesis counts as included: add_block(GENESIS_BLOCK), and add_block
\* of any block with time = 0, adds no key to block, waiting or wait_list and
\* changes no other index, the graph being seeded with genesis under
\* ZERO_HASH while hash(GENESIS_BLOCK) is the hash of the empty byte string.
C31_TimeZeroBlockAddsNothing ==
  [][calls' = calls + 1 =>
       \A blk \in TimeZero, keep \in SUBSET SnapshotTicks :
         NodeState' = add_block(NodeState, blk, now, keep) =>
           /\ DOMAIN block' = DOMAIN block
           /\ DOMAIN waiting' = DOMAIN waiting
           /\ DOMAIN wait_list' = DOMAIN wait_list
           /\ UNCHANGED <<children, work, target, height, results, tip>>]_vars

====
